---- MODULE Spec2Model ----
(***************************************************************************)
(* A model of src/src/main.rs: the three type-state capsules First, Second *)
(* and Third of module `state`, the enum StateMachine that wraps them, and *)
(* the loop of `main` that drives the machine with random decisions.       *)
(*                                                                         *)
(* Machine integers are modelled with their two's-complement width, scaled *)
(* from 32 bits down to IntBits bits so that every value can be            *)
(* enumerated; f64 is modelled as a binary floating-point format with      *)
(* round-to-nearest-even, infinities and NaN, whose mantissa is wider than *)
(* the integers (as 53 bits are wider than 32).                            *)
(***************************************************************************)
EXTENDS Integers, Sequences, FiniteSets, TLC

VARIABLES
    state_machine,     \* main.rs:35   the handle `state_machine`
    step,              \* main.rs:27   the loop counter `step`
    pc,                \* where the program is: in the loop, after it, or dead
    overflow_checks,   \* whether the build panics on integer overflow of `+`
    last,              \* history: the most recent capsule operation called
    prev,              \* history: the operation called before `last`
    edges              \* history: the changes of variant main has made

vars == <<state_machine, step, pc, overflow_checks, last, prev, edges>>

---------------------------------------------------------------------------
(* Bounds of the model *)

\* Width in bits of u32 and i32 in the model (32 in the program).
IntBits == 8

\* The loop of main is followed for at most this many iterations.
MaxStep == 8

\* The random u32 that main adds in First is at most this, or is one of
\* i32::MAX, i32::MAX + 1 and u32::MAX.
RandomSpread == 5

\* The arguments a client passes in a chain of two calls lie within this
\* distance of 0, or are the ends of the argument's type.
ArgSpread == 2

---------------------------------------------------------------------------
(* Machine integers *)

Pow2(n) == 2 ^ n

U32_MAX == Pow2(IntBits) - 1
I32_MAX == Pow2(IntBits - 1) - 1
I32_MIN == - Pow2(IntBits - 1)

U32 == 0 .. U32_MAX
I32 == I32_MIN .. I32_MAX

Abs(n) == IF n < 0 THEN -n ELSE n

\* The outcome of an evaluation: a value, or a panic that unwinds the thread.
Value(v) == [kind |-> "value", v |-> v]
Panic(msg) == [kind |-> "panic", msg |-> msg]

\* A faulty WrappingAddU32 that keeps the carry out of the top bit.
WrappingAddU32_carry(a, b) == a + b

\* `a + b` on u32: panics when overflow checks are compiled in, wraps otherwise.
WrappingAddU32(a, b) == (a + b) % Pow2(IntBits)

AddU32(a, b) ==
    IF a + b > U32_MAX
    THEN IF overflow_checks
         THEN Panic("attempt to add with overflow")
         ELSE Value(WrappingAddU32(a, b))
    ELSE Value(a + b)

\* The two's-complement value of the low IntBits bits of n.
WrapI32(n) ==
    LET m == n % Pow2(IntBits)
    IN  IF m > I32_MAX THEN m - Pow2(IntBits) ELSE m

\* `a + b` on i32.
AddI32(a, b) ==
    IF a + b > I32_MAX \/ a + b < I32_MIN
    THEN IF overflow_checks
         THEN Panic("attempt to add with overflow")
         ELSE Value(WrapI32(a + b))
    ELSE Value(a + b)

\* `n as i32` for a u32 n: the same bits, read as two's complement.
U32AsI32(n) == WrapI32(n)

\* i32::checked_mul: None when the product is not an i32.
None == [is |-> "None"]
Some(v) == [is |-> "Some", v |-> v]

\* A faulty CheckedMul that tests the product against i32::MAX only.
CheckedMul_upper_only(a, b) ==
    IF a * b > I32_MAX THEN None ELSE Some(a * b)

\* A faulty CheckedMul that wraps the product instead of refusing it.
CheckedMul_wrapping(a, b) == Some(WrapI32(a * b))

\* i32::checked_mul
CheckedMul(a, b) ==
    IF a * b > I32_MAX \/ a * b < I32_MIN THEN None ELSE Some(a * b)

\* A faulty TruncDiv that rounds the quotient down instead of toward zero.
TruncDiv_floor(a, b) == IF b > 0 THEN a \div b ELSE (-a) \div (-b)

\* `a / b` on i32: rounds toward zero; panics on a zero divisor and on the one
\* quotient that is not an i32, in every build.
TruncDiv(a, b) ==
    LET q == Abs(a) \div Abs(b)
    IN  IF (a < 0) # (b < 0) THEN -q ELSE q

DivI32(a, b) ==
    IF b = 0 THEN Panic("attempt to divide by zero")
    ELSE IF a = I32_MIN /\ b = -1 THEN Panic("attempt to divide with overflow")
    ELSE Value(TruncDiv(a, b))

---------------------------------------------------------------------------
(* f64 *)

\* A finite f64 is held as the integer q that counts halves: its value is
\* q / 2. A value is representable when q is a mantissa below F64_MANT times
\* a power of two in F64_EXPS; the format also has two infinities and NaN.
\* (The sign of zero is not modelled: no operation of the program reads it.)
F64_MANT == Pow2(IntBits + 1)
F64_EXPS == 0 .. 1
F64_MAX_Q == (F64_MANT - 1) * Pow2(1)

Finite(q) == [cls |-> "finite", q |-> q]
Infinity(sign) == [cls |-> "inf", q |-> sign]
NaN == [cls |-> "nan", q |-> 0]

Representable(q) ==
    \E e \in F64_EXPS : q % Pow2(e) = 0 /\ Abs(q) \div Pow2(e) < F64_MANT

F64 ==
    {Finite(q) : q \in {n \in -F64_MAX_Q .. F64_MAX_Q : Representable(n)}}
        \cup {Infinity(1), Infinity(-1), NaN}

\* Round the exact value q / 2 to f64: to the nearest representable value,
\* ties to the even mantissa, and to an infinity beyond the largest finite one.
F64Round(q) ==
    LET a == Abs(q)
        e == CHOOSE k \in 0 .. 3 :
                 /\ a < F64_MANT * Pow2(k)
                 /\ k = 0 \/ a >= F64_MANT * Pow2(k - 1)
        ulp == Pow2(e)
        m == a \div ulp
        r == a % ulp
        up == \/ 2 * r > ulp
              \/ 2 * r = ulp /\ m % 2 = 1
        mag == IF up THEN (m + 1) * ulp ELSE m * ulp
        sign == IF q < 0 THEN -1 ELSE 1
    IN  IF mag > F64_MAX_Q THEN Infinity(sign) ELSE Finite(sign * mag)

\* `x + y` on f64.
F64Add(x, y) ==
    IF x.cls = "nan" \/ y.cls = "nan" THEN NaN
    ELSE IF x.cls = "inf" /\ y.cls = "inf"
         THEN IF x.q = y.q THEN x ELSE NaN
    ELSE IF x.cls = "inf" THEN x
    ELSE IF y.cls = "inf" THEN y
    ELSE F64Round(x.q + y.q)

\* f64::from(n) for an i32 n.
F64FromI32(n) == F64Round(2 * n)

\* A faulty F64AsI32 that saturates at the ends of a type half as wide.
F64AsI32_narrow(x) ==
    IF x.cls = "nan" THEN 0
    ELSE IF x.cls = "inf"
         THEN (IF x.q > 0 THEN I32_MAX \div 2 ELSE -(I32_MAX \div 2))
    ELSE LET t == TruncDiv(x.q, 2)
         IN  IF t > I32_MAX \div 2 THEN I32_MAX \div 2
             ELSE IF t < -(I32_MAX \div 2) THEN -(I32_MAX \div 2)
             ELSE t

\* `x as i32` for an f64 x: the fraction is dropped, a value outside i32
\* saturates, and NaN becomes 0.
F64AsI32(x) ==
    IF x.cls = "nan" THEN 0
    ELSE IF x.cls = "inf" THEN (IF x.q > 0 THEN I32_MAX ELSE I32_MIN)
    ELSE LET t == TruncDiv(x.q, 2)
         IN  IF t > I32_MAX THEN I32_MAX
             ELSE IF t < I32_MIN THEN I32_MIN
             ELSE t

---------------------------------------------------------------------------
(* mod state: the capsules and the enum *)

\* pub struct First(u32); pub struct Second(i32); pub struct Third(f64);
First(n) == [type |-> "First", val |-> n]
Second(n) == [type |-> "Second", val |-> n]
Third(x) == [type |-> "Third", val |-> x]

\* pub enum StateMachine { First(First), Second(Second), Third(Third) }
StateMachine_First(c) == [variant |-> "First", inner |-> c]
StateMachine_Second(c) == [variant |-> "Second", inner |-> c]
StateMachine_Third(c) == [variant |-> "Third", inner |-> c]

\* A faulty StateMachine::new that drops its argument.
StateMachine_new_default(initial) == StateMachine_First(First(0))

\* StateMachine::new
StateMachine_new(initial) == StateMachine_First(First(initial))

\* Result<T, E>
Ok(v) == [is |-> "Ok", v |-> v]
Err(e) == [is |-> "Err", e |-> e]

OverflowReason == "Overflow!"

\* A faulty First::into_second that subtracts its argument.
First_into_second_minus(self, addend) ==
    LET sum == AddI32(U32AsI32(self.val), -addend)
    IN  IF sum.kind = "panic" THEN sum ELSE Value(Second(sum.v))

\* First::into_second
First_into_second(self, addend) ==
    LET sum == AddI32(U32AsI32(self.val), addend)
    IN  IF sum.kind = "panic" THEN sum ELSE Value(Second(sum.v))

\* First::add
First_add(self, addend) ==
    LET sum == AddU32(self.val, addend)
    IN  IF sum.kind = "panic" THEN sum ELSE Value(First(sum.v))

\* A faulty Second::into_third that multiplies in place before it fails, and
\* so hands back a capsule that holds the wrapped product.
Second_into_third_in_place(self, factor) ==
    LET product == CheckedMul(self.val, factor)
    IN  IF product.is = "None"
        THEN Value(Err(<<Second(WrapI32(self.val * factor)), OverflowReason>>))
        ELSE Value(Ok(Third(F64FromI32(product.v))))

\* Second::into_third
Second_into_third(self, factor) ==
    LET product == CheckedMul(self.val, factor)
    IN  IF product.is = "None"
        THEN Value(Err(<<self, OverflowReason>>))
        ELSE Value(Ok(Third(F64FromI32(product.v))))

\* A faulty Second::add that forgets the payload it was called on.
Second_add_of_nothing(self, addend) == Value(Second(addend))

\* Second::add
Second_add(self, addend) ==
    LET sum == AddI32(self.val, addend)
    IN  IF sum.kind = "panic" THEN sum ELSE Value(Second(sum.v))

\* A faulty Third::add that adds the addend twice.
Third_add_twice(self, addend) ==
    Value(Third(F64Add(F64Add(self.val, addend), addend)))

\* Third::add
Third_add(self, addend) ==
    Value(Third(F64Add(self.val, addend)))

\* Third::into_b
Third_into_b(self, divisor) ==
    LET quotient == DivI32(F64AsI32(self.val), divisor)
    IN  IF quotient.kind = "panic" THEN quotient ELSE Value(Second(quotient.v))

---------------------------------------------------------------------------
(* fn main *)

\* The literals of main.
Seed == 1
IntoSecondAddend == 12
IntoThirdFactor == 4
SecondAddend == 2
ThirdAddend == Finite(2 * 3)
IntoBDivisor == 3

\* The values rand::random() yields for the u32 addend of First::add: the
\* small ones, the two around the sign bit, the largest one, the one that
\* takes the seed to the First from which into_second(12) returns
\* Second(i32::MAX), and one that takes it to a First from which
\* into_second(12) returns a small negative Second.
RandomU32 ==
    (0 .. RandomSpread)
        \cup {I32_MAX - IntoSecondAddend - Seed, I32_MAX, I32_MAX + 1,
              U32_MAX - IntoSecondAddend - RandomSpread - Seed, U32_MAX}

\* The self-transitions of the three capsules.
SelfTransitions == {"First::add", "Second::add", "Third::add"}

\* A faulty Receiver under which every method takes its capsule by value.
Receiver_by_value(op) == "self"

\* How a method takes its receiver: the add methods borrow it (`&self`), the
\* into_ methods take it by value (`self`).
Receiver(op) == IF op \in SelfTransitions THEN "&self" ELSE "self"

\* A binding whose capsule was moved out of it.
Moved == [type |-> "moved"]

\* What the caller's binding of the receiver holds once the call is over:
\* the capsule itself after a borrow, nothing after a move.
After(op, recv) == IF Receiver(op) = "&self" THEN recv ELSE Moved

\* One record per operation called: the operation, its argument, the oracle's
\* decision that selected it ("-" outside main), the capsule it was called
\* on, its outcome, and the caller's binding of the receiver after the call.
Call(op, arg, oracle, recv, outcome) ==
    [op |-> op, arg |-> arg, oracle |-> oracle, recv |-> recv,
     outcome |-> outcome, after |-> After(op, recv)]

NoCall == [op |-> "-"]

\* let mut step = 0; let mut state_machine = StateMachine::new(1);
Init ==
    /\ state_machine = StateMachine_new(Seed)
    /\ step = 0
    /\ pc = "loop"
    /\ overflow_checks \in BOOLEAN
    /\ last = Call("StateMachine::new", Seed, "-", "-",
                   Value(StateMachine_new(Seed)))
    /\ prev = NoCall
    /\ edges = {}

\* The top of an iteration: `step += 1` and the match on the variant.
Iteration(variant) ==
    /\ pc = "loop"
    /\ step < MaxStep
    /\ state_machine.variant = variant
    /\ step' = step + 1
    /\ prev' = last
    /\ UNCHANGED overflow_checks

\* The end of an iteration whose operation returned `next` or panicked.
Assign(outcome, next, pcNext) ==
    IF outcome.kind = "panic"
    THEN pc' = "panicked" /\ UNCHANGED <<state_machine, edges>>
    ELSE /\ pc' = pcNext
         /\ state_machine' = next
         /\ edges' = edges \cup {<<state_machine.variant, next.variant>>}

\* A faulty arm of First that takes the self-loop on false.
FirstAddArm_on_false ==
    /\ \E addend \in RandomU32 :
         LET a == state_machine.inner
             outcome == First_add(a, addend)
         IN  /\ last' = Call("First::add", addend, "false", a, outcome)
             /\ Assign(outcome, StateMachine_First(outcome.v), "loop")

\* The arm of StateMachine::First(a), rand::random() is true
FirstAddArm ==
    /\ \E addend \in RandomU32 :
         LET a == state_machine.inner
             outcome == First_add(a, addend)
         IN  /\ last' = Call("First::add", addend, "true", a, outcome)
             /\ Assign(outcome, StateMachine_First(outcome.v), "loop")

\* One iteration of the loop through that arm.
FirstAdd ==
    /\ Iteration("First")
    /\ FirstAddArm

\* A faulty arm of First that goes on to Third in the same iteration.
FirstIntoSecond_and_on ==
    /\ Iteration("First")
    /\ LET a == state_machine.inner
           outcome == First_into_second(a, IntoSecondAddend)
       IN  /\ last' = Call("First::into_second", IntoSecondAddend, "false", a,
                           outcome)
           /\ Assign(outcome,
                     StateMachine_Third(Third(F64FromI32(outcome.v.val))),
                     "loop")

\* The arm of StateMachine::First(a), rand::random() is false
FirstIntoSecondArm ==
    /\ LET a == state_machine.inner
           outcome == First_into_second(a, IntoSecondAddend)
       IN  /\ last' = Call("First::into_second", IntoSecondAddend, "false", a,
                           outcome)
           /\ Assign(outcome, StateMachine_Second(outcome.v), "loop")

\* One iteration of the loop through that arm.
FirstIntoSecond ==
    /\ Iteration("First")
    /\ FirstIntoSecondArm

\* The arm of StateMachine::Second(b), rand::random() is true
SecondIntoThirdArm ==
    /\ LET b == state_machine.inner
           outcome == Second_into_third(b, IntoThirdFactor)
           result == outcome.v
       IN  /\ last' = Call("Second::into_third", IntoThirdFactor, "true", b,
                           outcome)
           /\ IF result.is = "Ok"
              THEN Assign(outcome, StateMachine_Third(result.v), "loop")
              ELSE Assign(outcome, StateMachine_Second(result.e[1]), "loop")

\* One iteration of the loop through that arm.
SecondIntoThird ==
    /\ Iteration("Second")
    /\ SecondIntoThirdArm

\* The arm of StateMachine::Second(b), rand::random() is false
SecondAddArm ==
    /\ LET b == state_machine.inner
           outcome == Second_add(b, SecondAddend)
       IN  /\ last' = Call("Second::add", SecondAddend, "false", b, outcome)
           /\ Assign(outcome, StateMachine_Second(outcome.v), "loop")

\* One iteration of the loop through that arm.
SecondAdd ==
    /\ Iteration("Second")
    /\ SecondAddArm

\* A faulty arm of Third that adds and goes round the loop again.
ThirdAddArm_no_break ==
    /\ LET c == state_machine.inner
           outcome == Third_add(c, ThirdAddend)
       IN  /\ last' = Call("Third::add", ThirdAddend, "true", c, outcome)
           /\ Assign(outcome, StateMachine_Third(outcome.v), "loop")

\* The arm of StateMachine::Third(c), rand::random() is true: add, then break
ThirdAddArm ==
    /\ LET c == state_machine.inner
           outcome == Third_add(c, ThirdAddend)
       IN  /\ last' = Call("Third::add", ThirdAddend, "true", c, outcome)
           /\ Assign(outcome, StateMachine_Third(outcome.v), "done")

\* One iteration of the loop through that arm.
ThirdAdd ==
    /\ Iteration("Third")
    /\ ThirdAddArm

\* A faulty arm of Third that retreats and leaves the loop.
ThirdIntoBArm_breaks ==
    /\ LET c == state_machine.inner
           outcome == Third_into_b(c, IntoBDivisor)
       IN  /\ last' = Call("Third::into_b", IntoBDivisor, "false", c, outcome)
           /\ Assign(outcome, StateMachine_Second(outcome.v), "done")

\* The arm of StateMachine::Third(c), rand::random() is false
ThirdIntoBArm ==
    /\ LET c == state_machine.inner
           outcome == Third_into_b(c, IntoBDivisor)
       IN  /\ last' = Call("Third::into_b", IntoBDivisor, "false", c, outcome)
           /\ Assign(outcome, StateMachine_Second(outcome.v), "loop")

\* One iteration of the loop through that arm.
ThirdIntoB ==
    /\ Iteration("Third")
    /\ ThirdIntoBArm

Next ==
    \/ FirstAdd
    \/ FirstIntoSecond
    \/ SecondIntoThird
    \/ SecondAdd
    \/ ThirdAdd
    \/ ThirdIntoB

Spec == Init /\ [][Next]_vars

---------------------------------------------------------------------------
(* main under a fair oracle *)

\* The top of an iteration in a run of any length: the loop has no bound
\* of its own, and `step` is followed only up to MaxStep.
IterationFair(variant) ==
    /\ pc = "loop"
    /\ state_machine.variant = variant
    /\ step' = IF step < MaxStep THEN step + 1 ELSE step
    /\ prev' = last
    /\ UNCHANGED overflow_checks

FairFirstAdd ==
    /\ IterationFair("First")
    /\ FirstAddArm

FairFirstIntoSecond ==
    /\ IterationFair("First")
    /\ FirstIntoSecondArm

FairSecondIntoThird ==
    /\ IterationFair("Second")
    /\ SecondIntoThirdArm

FairSecondAdd ==
    /\ IterationFair("Second")
    /\ SecondAddArm

FairThirdAdd ==
    /\ IterationFair("Third")
    /\ ThirdAddArm

FairThirdIntoB ==
    /\ IterationFair("Third")
    /\ ThirdIntoBArm

FairNext ==
    \/ FairFirstAdd
    \/ FairFirstIntoSecond
    \/ FairSecondIntoThird
    \/ FairSecondAdd
    \/ FairThirdAdd
    \/ FairThirdIntoB

\* Second::into_third(4) from a Second on which it returns Ok.
FairSecondIntoThirdOk ==
    /\ FairSecondIntoThird
    /\ state_machine'.variant = "Third"

\* What follows from rand::random() taking each value infinitely often in
\* every state it is asked in infinitely often: a branch that can be taken
\* again and again is taken, from a state where it succeeds if there is one.
FairOracle ==
    /\ SF_vars(FairFirstIntoSecond)
    /\ SF_vars(FairSecondAdd)
    /\ SF_vars(FairSecondIntoThirdOk)
    /\ SF_vars(FairThirdAdd)

SpecFair == Init /\ [][FairNext]_vars /\ FairOracle

---------------------------------------------------------------------------
(* A client of mod state *)

\* What code outside mod state can do with a handle: match on its variant
\* and call an operation of the capsule inside, with any argument of the
\* parameter's type, or call StateMachine::new. Every capsule value can be
\* reached that way, so a client starts from any handle.

Handles ==
    {StateMachine_First(First(n)) : n \in U32}
        \cup {StateMachine_Second(Second(n)) : n \in I32}
        \cup {StateMachine_Third(Third(x)) : x \in F64}

\* The operation named op, called on the capsule self.
Apply(op, self, arg) ==
    CASE op = "First::add" -> First_add(self, arg)
      [] op = "First::into_second" -> First_into_second(self, arg)
      [] op = "Second::add" -> Second_add(self, arg)
      [] op = "Second::into_third" -> Second_into_third(self, arg)
      [] op = "Third::add" -> Third_add(self, arg)
      [] op = "Third::into_b" -> Third_into_b(self, arg)

\* The capsule a client holds after a call returned v: the new capsule, or
\* the original one that a failed Second::into_third hands back.
Held(v) ==
    IF "is" \in DOMAIN v
    THEN IF v.is = "Ok" THEN v.v ELSE v.e[1]
    ELSE v

\* The variant of the enum that takes a capsule of c's type.
Wrap(c) ==
    CASE c.type = "First" -> StateMachine_First(c)
      [] c.type = "Second" -> StateMachine_Second(c)
      [] c.type = "Third" -> StateMachine_Third(c)

\* A client that holds no handle yet.
NoHandle == [variant |-> "-"]

\* A client matches `variant` and calls op with an argument of Args.
ClientCall(op, variant, Args, to) ==
    /\ state_machine.variant = variant
    /\ \E arg \in Args :
         LET self == state_machine.inner
             outcome == Apply(op, self, arg)
         IN  /\ last' = Call(op, arg, "-", self, outcome)
             /\ IF outcome.kind = "panic"
                THEN pc' = "panicked" /\ UNCHANGED state_machine
                ELSE pc' = to /\ state_machine' = Wrap(Held(outcome.v))
    /\ prev' = last
    /\ UNCHANGED <<step, overflow_checks, edges>>

\* A client that holds no handle calls StateMachine::new.
ClientNew(Args, to) ==
    /\ state_machine = NoHandle
    /\ \E seed \in Args :
         /\ state_machine' = StateMachine_new(seed)
         /\ last' = Call("StateMachine::new", seed, "-", "-",
                         Value(StateMachine_new(seed)))
    /\ pc' = to
    /\ prev' = last
    /\ UNCHANGED <<step, overflow_checks, edges>>

\* The f64 arguments a client passes to Third::add: the ones around zero (in
\* halves), the largest finite ones, the infinities and NaN.
F64Args ==
    {Finite(q) : q \in -(2 * ArgSpread) .. 2 * ArgSpread}
        \cup {Finite(-F64_MAX_Q), Finite(F64_MAX_Q)}
        \cup {Infinity(1), Infinity(-1), NaN}

\* One call, with every argument of the parameter's type.
ApiInit ==
    /\ state_machine \in Handles \cup {NoHandle}
    /\ step = 0
    /\ pc = "client"
    /\ overflow_checks \in BOOLEAN
    /\ last = NoCall
    /\ prev = NoCall
    /\ edges = {}

ApiNew ==
    /\ pc = "client"
    /\ ClientNew(U32, "returned")

ApiFirstAdd ==
    /\ pc = "client"
    /\ ClientCall("First::add", "First", U32, "returned")

ApiFirstIntoSecond ==
    /\ pc = "client"
    /\ ClientCall("First::into_second", "First", I32, "returned")

ApiSecondAdd ==
    /\ pc = "client"
    /\ ClientCall("Second::add", "Second", I32, "returned")

ApiSecondIntoThird ==
    /\ pc = "client"
    /\ ClientCall("Second::into_third", "Second", I32, "returned")

ApiThirdAdd ==
    /\ pc = "client"
    /\ ClientCall("Third::add", "Third", F64Args, "returned")

ApiThirdIntoB ==
    /\ pc = "client"
    /\ ClientCall("Third::into_b", "Third", I32, "returned")

ApiNext ==
    \/ ApiNew
    \/ ApiFirstAdd
    \/ ApiFirstIntoSecond
    \/ ApiSecondAdd
    \/ ApiSecondIntoThird
    \/ ApiThirdAdd
    \/ ApiThirdIntoB

\* The program, or a client that makes one call.
SpecApi == (Init \/ ApiInit) /\ [][Next \/ ApiNext]_vars

\* Two calls in a row, the second on the capsule the first returned: a
\* self-transition repeated, First::add then First::into_second, or
\* Second::into_third (with every factor) then Third::into_b (with the
\* factor as divisor, among others).
U32ChainArgs == (0 .. ArgSpread) \cup {U32_MAX}
I32ChainArgs == (-ArgSpread .. ArgSpread) \cup {I32_MIN, I32_MAX}
F64ChainArgs ==
    {Finite(q) : q \in -ArgSpread .. ArgSpread}
        \cup {Finite(-F64_MAX_Q), Finite(F64_MAX_Q)}
        \cup {Infinity(1), Infinity(-1), NaN}

ChainInit ==
    /\ state_machine \in Handles
    /\ step = 0
    /\ pc = "chain"
    /\ overflow_checks \in BOOLEAN
    /\ last = NoCall
    /\ prev = NoCall
    /\ edges = {}

ChainFirstAdd ==
    /\ \/ pc = "chain"
       \/ pc = "chained" /\ last.op = "First::add"
    /\ ClientCall("First::add", "First", U32ChainArgs,
                  IF pc = "chain" THEN "chained" ELSE "returned")

ChainFirstIntoSecond ==
    /\ pc = "chained" /\ last.op = "First::add"
    /\ ClientCall("First::into_second", "First", I32ChainArgs, "returned")

ChainSecondAdd ==
    /\ \/ pc = "chain"
       \/ pc = "chained" /\ last.op = "Second::add"
    /\ ClientCall("Second::add", "Second", I32ChainArgs,
                  IF pc = "chain" THEN "chained" ELSE "returned")

ChainSecondIntoThird ==
    /\ pc = "chain"
    /\ ClientCall("Second::into_third", "Second", I32, "chained")

ChainThirdAdd ==
    /\ \/ pc = "chain"
       \/ pc = "chained" /\ last.op = "Third::add"
    /\ ClientCall("Third::add", "Third", F64ChainArgs,
                  IF pc = "chain" THEN "chained" ELSE "returned")

ChainThirdIntoB ==
    /\ pc = "chained" /\ last.op = "Second::into_third"
    /\ ClientCall("Third::into_b", "Third", I32ChainArgs \cup {last.arg},
                  "returned")

ChainNext ==
    \/ ChainFirstAdd
    \/ ChainFirstIntoSecond
    \/ ChainSecondAdd
    \/ ChainSecondIntoThird
    \/ ChainThirdAdd
    \/ ChainThirdIntoB

SpecChain == ChainInit /\ [][ChainNext]_vars

---------------------------------------------------------------------------
(* Properties *)

InI32(n) == I32_MIN <= n /\ n <= I32_MAX
InU32(n) == 0 <= n /\ n <= U32_MAX

\* C1. Failure non-destruction: whenever Second::into_third is called with a
\* factor whose product with the payload is not an i32, it returns Err, the
\* capsule in the Err is a Second with the payload of the capsule it was
\* called on, the reason is the overflow reason, and the caller still holds
\* that capsule afterwards.
C1_FailureNonDestruction ==
    (last.op = "Second::into_third" /\ ~InI32(last.recv.val * last.arg)) =>
        /\ last.outcome.kind = "value"
        /\ last.outcome.v.is = "Err"
        /\ last.outcome.v.e[1].type = "Second"
        /\ last.outcome.v.e[1].val = last.recv.val
        /\ last.outcome.v.e[2] = OverflowReason
        /\ pc # "panicked"
        /\ state_machine.variant = "Second"
        /\ state_machine.inner.val = last.recv.val

\* Second(3).into_third(i32::MAX) has failed.
C1_Witness ==
    /\ pc = "returned"
    /\ last.op = "Second::into_third"
    /\ last.recv.val = 3
    /\ last.arg = I32_MAX
    /\ last.outcome.v.is = "Err"
    /\ state_machine.inner.val = 3

\* C2. Second::into_third returns Ok exactly when the product of payload and
\* factor is an i32, the Third in the Ok then holds exactly that product, and
\* the call never panics.
C2_IntoThirdExact ==
    last.op = "Second::into_third" =>
        /\ last.outcome.kind = "value"
        /\ (last.outcome.v.is = "Ok") <=> InI32(last.recv.val * last.arg)
        /\ last.outcome.v.is = "Ok" =>
             /\ last.outcome.v.v.type = "Third"
             /\ last.outcome.v.v.val.cls = "finite"
             /\ last.outcome.v.v.val.q = 2 * (last.recv.val * last.arg)
             /\ state_machine.variant = "Third"
             /\ state_machine.inner = last.outcome.v.v

\* Second(18).into_third(4) has returned Third(72.0).
C2_Witness ==
    /\ pc = "returned"
    /\ last.op = "Second::into_third"
    /\ last.recv.val = 18
    /\ last.arg = 4
    /\ last.outcome.v.is = "Ok"
    /\ state_machine.inner.val = Finite(2 * 72)

\* The changes of variant that the operations of the capsules allow.
AllowedEdges ==
    {<<"First", "First">>, <<"First", "Second">>, <<"Second", "Second">>,
     <<"Second", "Third">>, <<"Third", "Third">>, <<"Third", "Second">>}

\* A step goes from its variant to the next along an allowed edge.
EdgeAllowed ==
    <<state_machine.variant, state_machine'.variant>> \in AllowedEdges

\* C3. Every step of main keeps the variant or changes it along First to
\* Second, Second to Third or Third to Second: never First to Third, and
\* never back to First.
C3_OnlyAllowedEdges == [][EdgeAllowed]_vars

\* One run of main has taken all six edges.
C3_Witness ==
    /\ pc = "done"
    /\ edges = AllowedEdges

\* C4. The handle always carries one variant, the capsule inside has the
\* type of that variant, and its payload is a value of the capsule's field
\* type: a u32 in First, an i32 in Second, an f64 in Third.
C4_OneVariant ==
    /\ DOMAIN state_machine = {"variant", "inner"}
    /\ state_machine.variant \in {"First", "Second", "Third"}
    /\ state_machine.inner.type = state_machine.variant
    /\ CASE state_machine.variant = "First" -> InU32(state_machine.inner.val)
         [] state_machine.variant = "Second" -> InI32(state_machine.inner.val)
         [] state_machine.variant = "Third" -> state_machine.inner.val \in F64

\* main has added past u32::MAX in a build that wraps, and goes on.
C4_Witness ==
    /\ pc = "loop"
    /\ last.op = "First::add"
    /\ last.recv.val + last.arg > U32_MAX
    /\ state_machine.variant = "First"

\* C5. StateMachine::new never fails and returns the First variant whose
\* payload is its argument; main starts with the handle new(1).
C5_NewIsFirstOfSeed ==
    /\ last.op = "StateMachine::new" =>
         /\ last.outcome.kind = "value"
         /\ last.outcome.v.variant = "First"
         /\ last.outcome.v.inner.type = "First"
         /\ last.outcome.v.inner.val = last.arg
         /\ state_machine = last.outcome.v
         /\ pc # "panicked"
    /\ (pc = "loop" /\ step = 0) =>
         /\ last.op = "StateMachine::new"
         /\ last.arg = 1

\* A client has called StateMachine::new(u32::MAX).
C5_Witness ==
    /\ pc = "returned"
    /\ last.op = "StateMachine::new"
    /\ last.arg = U32_MAX
    /\ state_machine.variant = "First"
    /\ state_machine.inner.val = U32_MAX

\* Twice the payload of a capsule, as an integer: payloads of First and
\* Second are integers, a finite payload of Third counts halves.
Halves(c) == IF c.type = "Third" THEN c.val.q ELSE 2 * c.val

\* Twice the payload that the documented formula of the operation gives,
\* computed in the integers.
DocumentedHalves(call) ==
    CASE call.op = "StateMachine::new" -> 2 * call.arg
      [] call.op = "First::add" -> 2 * (call.recv.val + call.arg)
      [] call.op = "First::into_second" -> 2 * (call.recv.val + call.arg)
      [] call.op = "Second::add" -> 2 * (call.recv.val + call.arg)
      [] call.op = "Second::into_third" ->
           IF call.outcome.v.is = "Ok"
           THEN 2 * (call.recv.val * call.arg)
           ELSE 2 * call.recv.val
      [] call.op = "Third::add" -> call.recv.val.q + call.arg.q
      [] call.op = "Third::into_b" ->
           2 * (LET n == call.recv.val.q
                    d == 2 * call.arg
                    q == Abs(n) \div Abs(d)
                IN  IF (n < 0) # (d < 0) THEN -q ELSE q)

\* C6. Encapsulation: after every step of main that returned, the payload in
\* the handle is the one the documented formula gives for the operation
\* called, applied to the payload before the step: old + delta for a
\* self-loop, payload + param for First to Second, payload * factor for
\* Second to Third (the payload unchanged if that failed), and payload /
\* divisor rounded toward zero for Third to Second.
C6_Encapsulation ==
    (pc \in {"loop", "done"}) =>
        Halves(state_machine.inner) = DocumentedHalves(last)

\* C7. First::add returns First(payload + delta) when the sum is a u32, and
\* when the sum is above u32::MAX it does not return a capsule that holds the
\* sum modulo 2^32.
C7_NeverSilentlyWraps ==
    last.op = "First::add" =>
        IF last.recv.val + last.arg <= U32_MAX
        THEN /\ last.outcome.kind = "value"
             /\ last.outcome.v.val = last.recv.val + last.arg
        ELSE ~ /\ last.outcome.kind = "value"
               /\ last.outcome.v.val
                      = (last.recv.val + last.arg) % Pow2(IntBits)

\* C8, as stated: First::into_second returns Second(payload + param) for
\* every u32 payload and every i32 param.
C8_AlwaysSum ==
    last.op = "First::into_second" =>
        /\ last.outcome.kind = "value"
        /\ last.outcome.v.type = "Second"
        /\ last.outcome.v.val = last.recv.val + last.arg

\* C8, amended. First::into_second returns Second(payload + param) whenever
\* the payload is at most i32::MAX and payload + param is an i32; and when
\* First(1).add(5) returned the capsule it is then called on with 12, that
\* capsule is First(6) and the result is Second(18).
C8_SumWhenInRange ==
    /\ (/\ last.op = "First::into_second"
        /\ last.recv.val <= I32_MAX
        /\ InI32(last.recv.val + last.arg)) =>
           /\ last.outcome.kind = "value"
           /\ last.outcome.v.type = "Second"
           /\ last.outcome.v.val = last.recv.val + last.arg
           /\ state_machine.variant = "Second"
           /\ state_machine.inner = last.outcome.v
    /\ (/\ last.op = "First::into_second"
        /\ last.arg = 12
        /\ prev.op = "First::add"
        /\ prev.recv.val = 1
        /\ prev.arg = 5) =>
           /\ prev.outcome.kind = "value"
           /\ last.recv = prev.outcome.v
           /\ last.recv.val = 6
           /\ last.outcome.kind = "value"
           /\ state_machine.inner.val = 18

\* main has gone new(1), First::add(5), First::into_second(12).
C8_Witness ==
    /\ step = 2
    /\ prev.op = "First::add"
    /\ prev.recv.val = 1
    /\ prev.arg = 5
    /\ last.op = "First::into_second"
    /\ last.recv.val = 6
    /\ state_machine.variant = "Second"
    /\ state_machine.inner.val = 18

\* c is the i32 that `x as i32` must give for the f64 x: 0 for NaN, the
\* nearest end of i32 for a value outside it, and otherwise the integer part
\* of x, with the sign of x.
IsI32Of(c, x) ==
    CASE x.cls = "nan" -> c = 0
      [] x.cls = "inf" -> c = (IF x.q > 0 THEN I32_MAX ELSE I32_MIN)
      [] x.cls = "finite" ->
           IF x.q >= 2 * (I32_MAX + 1) THEN c = I32_MAX
           ELSE IF x.q <= 2 * (I32_MIN - 1) THEN c = I32_MIN
           ELSE /\ 2 * Abs(c) <= Abs(x.q)
                /\ Abs(x.q) < 2 * Abs(c) + 2
                /\ c * x.q >= 0

\* r is the quotient of c by d rounded toward zero: what is left of c is
\* smaller than d and has the sign of c.
IsTruncatedQuotient(r, c, d) ==
    /\ Abs(c - r * d) < Abs(d)
    /\ (c - r * d) * c >= 0

\* C9, as stated: for every nonzero divisor Third::into_b returns a Second
\* whose payload is the converted payload divided by the divisor, rounded
\* toward zero; with divisor 0 it returns nothing.
C9_EveryNonzeroDivisor ==
    last.op = "Third::into_b" =>
        IF last.arg # 0
        THEN /\ last.outcome.kind = "value"
             /\ last.outcome.v.type = "Second"
             /\ IsTruncatedQuotient(last.outcome.v.val,
                                    F64AsI32(last.recv.val), last.arg)
        ELSE last.outcome.kind = "panic"

\* C9, amended. The payload converts to an i32 c (fraction dropped, saturated,
\* NaN to 0). With divisor 0, and with c = i32::MIN and divisor -1,
\* Third::into_b panics and returns no capsule; for every other divisor it
\* returns a Second whose payload is c / divisor rounded toward zero.
C9_TruncatedQuotient ==
    last.op = "Third::into_b" =>
        LET c == F64AsI32(last.recv.val)
            d == last.arg
        IN  /\ IsI32Of(c, last.recv.val)
            /\ IF d = 0 \/ (c = I32_MIN /\ d = -1)
               THEN /\ last.outcome.kind = "panic"
                    /\ pc = "panicked"
               ELSE /\ last.outcome.kind = "value"
                    /\ last.outcome.v.type = "Second"
                    /\ InI32(last.outcome.v.val)
                    /\ IsTruncatedQuotient(last.outcome.v.val, c, d)
                    /\ state_machine.variant = "Second"
                    /\ state_machine.inner = last.outcome.v

\* Third(-72.5).into_b(3) has returned Second(-24).
C9_Witness ==
    /\ pc = "returned"
    /\ last.op = "Third::into_b"
    /\ last.recv.val = Finite(-145)
    /\ last.arg = 3
    /\ state_machine.variant = "Second"
    /\ state_machine.inner.val = -24

\* Two self-transitions in a row, the second on the result of the first.
AddedTwice(op) ==
    /\ pc = "returned"
    /\ prev.op = op
    /\ last.op = op
    /\ prev.outcome.kind = "value"
    /\ last.outcome.kind = "value"
    /\ last.recv = prev.outcome.v

\* The payload of x.add(d), for the x of the first call.
AddedOnce(op, d) == Apply(op, prev.recv, d).v.val

\* No sum of the chain leaves the f64 range: the payload and the deltas are
\* finite, and so are x + a, a + b, (x + a) + b and x + (a + b).
NoF64Overflow ==
    /\ prev.recv.val.cls = "finite"
    /\ prev.arg.cls = "finite"
    /\ last.arg.cls = "finite"
    /\ last.recv.val.cls = "finite"
    /\ F64Add(prev.arg, last.arg).cls = "finite"
    /\ last.outcome.v.val.cls = "finite"
    /\ F64Add(prev.recv.val, F64Add(prev.arg, last.arg)).cls = "finite"

\* No sum of the chain is rounded: x + a, a + b and x + a + b are values of
\* f64 as they stand.
NoF64Rounding ==
    /\ Representable(prev.recv.val.q + prev.arg.q)
    /\ Representable(prev.arg.q + last.arg.q)
    /\ Representable(prev.recv.val.q + prev.arg.q + last.arg.q)
    /\ Abs(prev.recv.val.q + prev.arg.q) <= F64_MAX_Q
    /\ Abs(prev.arg.q + last.arg.q) <= F64_MAX_Q
    /\ Abs(prev.recv.val.q + prev.arg.q + last.arg.q) <= F64_MAX_Q

AssociativeFirst ==
    (/\ AddedTwice("First::add")
     /\ InU32(prev.arg + last.arg)
     /\ InU32(prev.recv.val + prev.arg + last.arg)) =>
        last.outcome.v.val = AddedOnce("First::add", prev.arg + last.arg)

AssociativeSecond ==
    (/\ AddedTwice("Second::add")
     /\ InI32(prev.recv.val + prev.arg)
     /\ InI32(prev.arg + last.arg)
     /\ InI32(prev.recv.val + prev.arg + last.arg)) =>
        last.outcome.v.val = AddedOnce("Second::add", prev.arg + last.arg)

\* C10, as stated: for First::add, Second::add and Third::add, x.add(a).add(b)
\* and x.add(a + b) hold the same payload whenever no sum overflows.
C10_AssociativeUnlessOverflow ==
    /\ AssociativeFirst
    /\ AssociativeSecond
    /\ (AddedTwice("Third::add") /\ NoF64Overflow) =>
         last.outcome.v.val
             = AddedOnce("Third::add", F64Add(prev.arg, last.arg))

\* C10, amended. For First::add and Second::add, x.add(a).add(b) and
\* x.add(a + b) hold the same payload whenever no sum overflows; for
\* Third::add they do whenever no sum overflows and none of x + a, a + b and
\* x + a + b is rounded.
C10_AssociativeUnlessRounded ==
    /\ AssociativeFirst
    /\ AssociativeSecond
    /\ (AddedTwice("Third::add") /\ NoF64Overflow /\ NoF64Rounding) =>
         last.outcome.v.val
             = AddedOnce("Third::add", F64Add(prev.arg, last.arg))

\* Third(255.5).add(0.5).add(-1.0) has returned Third(255.0): the first sum
\* reaches the next binade without being rounded.
C10_Witness ==
    /\ AddedTwice("Third::add")
    /\ NoF64Overflow
    /\ NoF64Rounding
    /\ prev.recv.val = Finite(F64_MANT - 1)
    /\ prev.arg = Finite(1)
    /\ last.arg = Finite(-2)
    /\ state_machine.inner.val = Finite(F64_MANT - 2)

\* C11. Round trip: Second::into_third with a nonzero factor whose product
\* with the payload is an i32 returns Ok, and Third::into_b called on that
\* Third with the factor as divisor returns a Second that holds the payload
\* the round trip started from.
C11_RoundTrip ==
    /\ (/\ last.op = "Second::into_third"
        /\ last.arg # 0
        /\ InI32(last.recv.val * last.arg)) =>
           /\ last.outcome.kind = "value"
           /\ last.outcome.v.is = "Ok"
    /\ (/\ prev.op = "Second::into_third"
        /\ prev.arg # 0
        /\ InI32(prev.recv.val * prev.arg)
        /\ last.op = "Third::into_b"
        /\ last.arg = prev.arg) =>
           /\ last.recv = prev.outcome.v.v
           /\ pc = "returned"
           /\ last.outcome.kind = "value"
           /\ last.outcome.v.type = "Second"
           /\ last.outcome.v.val = prev.recv.val
           /\ state_machine.variant = "Second"
           /\ state_machine.inner.val = prev.recv.val

\* Second(-25).into_third(5) then into_b(5) has returned Second(-25).
C11_Witness ==
    /\ pc = "returned"
    /\ prev.op = "Second::into_third"
    /\ prev.recv.val = -25
    /\ prev.arg = 5
    /\ last.op = "Third::into_b"
    /\ last.recv.val = Finite(-250)
    /\ last.arg = 5
    /\ state_machine.inner.val = -25

\* C12. A self-transition that returns leaves the capsule it was called on
\* in the caller's hands with the payload it had, returns a capsule of the
\* same state type, and leaves the handle (in main's self-loops as in a
\* client's) in the variant it was in.
C12_SelfTransitionFrame ==
    (last.op \in SelfTransitions /\ last.outcome.kind = "value") =>
        /\ last.after.type = last.recv.type
        /\ last.after.val = last.recv.val
        /\ last.outcome.v.type = last.recv.type
        /\ pc # "panicked"
        /\ state_machine.variant = last.recv.type
        /\ state_machine.inner = last.outcome.v

\* main advanced First(6) to Second(18), which moved the First out of its
\* binding, then took the Second self-loop: Second(18) still holds 18.
C12_Witness ==
    /\ prev.op = "First::into_second"
    /\ prev.recv = First(6)
    /\ prev.after = Moved
    /\ last.op = "Second::add"
    /\ last.oracle = "false"
    /\ last.after = Second(18)
    /\ state_machine = StateMachine_Second(Second(20))

\* The iterations of the run in which every decision of the oracle selects
\* the forward branch: First::into_second in the first, Second::into_third
\* in the second, Third::add and the break in the third.
Advanced1 == step = 1 /\ last.op = "First::into_second"

Advanced2 ==
    /\ step = 2
    /\ prev.op = "First::into_second"
    /\ last.op = "Second::into_third"

Advanced3 ==
    /\ step = 3
    /\ prev.op = "Second::into_third"
    /\ last.op = "Third::add"

\* C13. Termination scenario: when the oracle selects the forward branch
\* in every iteration, main goes from new(1) to Second(13) in its first
\* iteration and to Third(52.0) in its second, and stops in its third, a
\* Third self-loop that leaves Third(55.0); no run is in Third before its
\* second iteration or stops before its third.
C13_TerminationScenario ==
    /\ Advanced1 =>
          /\ pc = "loop"
          /\ state_machine
                = StateMachine_Second(Second(Seed + IntoSecondAddend))
    /\ Advanced2 =>
          /\ pc = "loop"
          /\ state_machine
                = StateMachine_Third(Third(Finite(
                      2 * IntoThirdFactor * (Seed + IntoSecondAddend))))
    /\ Advanced3 =>
          /\ pc = "done"
          /\ prev.recv = Second(Seed + IntoSecondAddend)
          /\ state_machine
                = StateMachine_Third(Third(Finite(
                      2 * IntoThirdFactor * (Seed + IntoSecondAddend)
                          + ThirdAddend.q)))
    /\ state_machine.variant = "Third" => step >= 2
    /\ pc = "done" => step >= 3

\* The run that always goes forward has stopped, after three iterations.
C13_Witness ==
    /\ Advanced3
    /\ pc = "done"
    /\ edges = {<<"First", "Second">>, <<"Second", "Third">>,
                <<"Third", "Third">>}
    /\ state_machine = StateMachine_Third(Third(Finite(110)))

\* The operations main calls on a First.
FirstOps == {"First::add", "First::into_second"}

\* The policy in First as the specification words it: false selects the
\* self-loop and the handle stays First, true selects into_second(12) and
\* the handle becomes Second.
C14_InitialPolicy ==
    last.op \in FirstOps =>
        /\ last.oracle = "false" =>
              /\ last.op = "First::add"
              /\ state_machine.variant = "First"
        /\ last.oracle = "true" =>
              /\ last.op = "First::into_second"
              /\ last.arg = IntoSecondAddend
              /\ state_machine.variant = "Second"

\* C14. Policy of main in First: when rand::random() is true it calls
\* First::add with a sampled u32 and the handle stays First; when it is
\* false it calls into_second(12) and the handle becomes Second, unless the
\* sum overflows in a build with overflow checks, where the call panics.
C14_InitialPolicyInMain ==
    last.op \in FirstOps =>
        /\ last.recv.type = "First"
        /\ last.oracle \in {"true", "false"}
        /\ last.oracle = "true" =>
              /\ last.op = "First::add"
              /\ last.arg \in U32
              /\ state_machine.variant = "First"
        /\ last.oracle = "false" =>
              /\ last.op = "First::into_second"
              /\ last.arg = IntoSecondAddend
              /\ last.outcome.kind = "value" =>
                    /\ pc = "loop"
                    /\ state_machine.variant = "Second"
              /\ last.outcome.kind = "panic" =>
                    /\ overflow_checks
                    /\ ~InI32(U32AsI32(last.recv.val) + IntoSecondAddend)
                    /\ pc = "panicked"

\* main drew true and then false in First: self-loop, then Second.
C14_Witness ==
    /\ step = 2
    /\ prev.op = "First::add"
    /\ prev.oracle = "true"
    /\ prev.outcome.v.type = "First"
    /\ last.op = "First::into_second"
    /\ last.oracle = "false"
    /\ state_machine.variant = "Second"

\* The operations main calls on a Second.
SecondOps == {"Second::add", "Second::into_third"}

\* C15. Policy of main in Second: false selects the self-loop, which leaves
\* Second(payload + 2) in the handle; true selects into_third(4), called
\* once in the iteration: on Ok the handle becomes Third, on Err it is
\* Second with the payload it had and the loop goes on.
C15_MiddlePolicy ==
    last.op \in SecondOps =>
        /\ last.recv.type = "Second"
        /\ last.oracle \in {"true", "false"}
        /\ last.oracle = "false" =>
              /\ last.op = "Second::add"
              /\ last.arg = SecondAddend
              /\ pc = "loop"
              /\ state_machine.variant = "Second"
              /\ state_machine.inner.val = last.recv.val + SecondAddend
        /\ last.oracle = "true" =>
              /\ last.op = "Second::into_third"
              /\ last.arg = IntoThirdFactor
              /\ last.outcome.kind = "value"
              /\ pc = "loop"
              /\ last.outcome.v.is = "Ok" =>
                    state_machine = StateMachine_Third(last.outcome.v.v)
              /\ last.outcome.v.is = "Err" =>
                    /\ last.outcome.v.e[2] = OverflowReason
                    /\ state_machine = StateMachine_Second(last.recv)
              /\ prev.op = "Second::into_third" =>
                    /\ prev.oracle = "true"
                    /\ prev.outcome.v.is = "Err"

\* The same policy wherever Second::add(2) does not overflow.
C15_MiddlePolicyInRange ==
    (last.op \in SecondOps /\ InI32(last.recv.val + SecondAddend)) =>
        C15_MiddlePolicy

\* C16. Policy of main in Third: true selects the self-loop, called once,
\* which leaves Third(payload + 3.0) in the handle, and main stops; false
\* selects into_b(3), the handle becomes Second and the loop goes on.
C16_FinalPolicy ==
    last.op \in {"Third::add", "Third::into_b"} =>
        /\ last.recv.type = "Third"
        /\ last.oracle \in {"true", "false"}
        /\ last.outcome.kind = "value"
        /\ last.oracle = "true" =>
              /\ last.op = "Third::add"
              /\ last.arg = ThirdAddend
              /\ prev.op # "Third::add"
              /\ pc = "done"
              /\ state_machine = StateMachine_Third(last.outcome.v)
              /\ state_machine.inner.val
                    = Finite(last.recv.val.q + ThirdAddend.q)
        /\ last.oracle = "false" =>
              /\ last.op = "Third::into_b"
              /\ last.arg = IntoBDivisor
              /\ pc = "loop"
              /\ state_machine = StateMachine_Second(last.outcome.v)
              /\ state_machine.variant = "Second"

\* main retreated from Third(52.0) to Second(17), advanced again and
\* stopped with Third(71.0).
C16_Witness ==
    /\ pc = "done"
    /\ Halves(prev.recv) = 2 * 17
    /\ prev.op = "Second::into_third"
    /\ last.op = "Third::add"
    /\ last.oracle = "true"
    /\ state_machine = StateMachine_Third(Third(Finite(2 * 71)))
    /\ <<"Third", "Second">> \in edges

\* C17. main has stopped only through the Third self-loop and its break:
\* whenever it is no longer in its loop, the handle is Third and the last
\* operation called was Third::add; no operation it calls ends the run in
\* another way.
C17_OnlyExit ==
    pc # "loop" =>
        /\ pc = "done"
        /\ state_machine.variant = "Third"
        /\ last.op = "Third::add"

\* The sum that an addition of main computes.
SumOf(call) ==
    CASE call.op = "First::add" -> call.recv.val + call.arg
      [] call.op = "First::into_second" -> U32AsI32(call.recv.val) + call.arg
      [] call.op = "Second::add" -> call.recv.val + call.arg

\* The ways main does stop: the break after Third::add, or a panic of one
\* of its three integer additions, in a build with overflow checks, on a
\* sum outside the range of the type.
C17_ExitsOfMain ==
    /\ pc \in {"loop", "done", "panicked"}
    /\ pc = "done" =>
          /\ state_machine.variant = "Third"
          /\ last.op = "Third::add"
    /\ pc = "panicked" =>
          /\ overflow_checks
          /\ last.outcome.kind = "panic"
          /\ last.op \in {"First::add", "First::into_second", "Second::add"}
          /\ state_machine.inner = last.recv
          /\ IF last.op = "First::add"
             THEN ~InU32(SumOf(last))
             ELSE ~InI32(SumOf(last))

\* C18. Under a fair oracle every run of main from new(1) takes, sooner or
\* later, the Third self-loop with its break, and has then terminated.
C18_EventuallyTerminates == <>(pc = "done")

\* Under a fair oracle every run of main stops: through the break, or
\* through the panic of an addition that overflows.
C18_EventuallyStops == <>(pc \in {"done", "panicked"})

\* Without overflow checks every run under a fair oracle terminates.
C18_TerminatesWithoutChecks == <>(overflow_checks \/ pc = "done")

\* C19. A Third at the top of an iteration of main holds exactly 4 * m, an
\* i32, for the payload m of the Second it was advanced from; Third::add is
\* called at most once in a run, in its last iteration; into_b(3) returns
\* 4 * m divided by 3 and rounded toward zero, and main stops with 4 * m + 3.
C19_FinalPayloadInMain ==
    /\ (pc = "loop" /\ state_machine.variant = "Third") =>
          /\ last.op = "Second::into_third"
          /\ last.outcome.v.is = "Ok"
          /\ InI32(IntoThirdFactor * last.recv.val)
          /\ state_machine.inner.val
                = Finite(2 * IntoThirdFactor * last.recv.val)
    /\ prev.op # "Third::add"
    /\ last.op = "Third::add" => pc = "done"
    /\ last.op = "Third::into_b" =>
          /\ prev.op = "Second::into_third"
          /\ last.recv = prev.outcome.v.v
          /\ last.outcome.kind = "value"
          /\ state_machine.variant = "Second"
          /\ IsTruncatedQuotient(state_machine.inner.val,
                                 IntoThirdFactor * prev.recv.val,
                                 IntoBDivisor)
    /\ pc = "done" =>
          /\ prev.op = "Second::into_third"
          /\ last.recv = prev.outcome.v.v
          /\ state_machine.inner.val
                = Finite(2 * (IntoThirdFactor * prev.recv.val + 3))

\* main advanced Second(-5) to Third(-20.0), retreated to Second(-6),
\* advanced to Third(-24.0) and stopped with Third(-21.0).
C19_Witness ==
    /\ pc = "done"
    /\ <<"Third", "Second">> \in edges
    /\ prev.recv = Second(-6)
    /\ last.recv = Third(Finite(-48))
    /\ state_machine = StateMachine_Third(Third(Finite(-42)))

\* The handle is a Second whose payload is above i32::MAX / 4.
AboveQuarter ==
    /\ state_machine.variant = "Second"
    /\ state_machine.inner.val > I32_MAX \div IntoThirdFactor

\* An iteration of main from such a Second: into_third(4) returns Err and
\* leaves the handle as it is; add(2), when the sum is an i32, leaves a
\* larger payload, still above i32::MAX / 4; and neither takes the handle
\* to Third or stops main.
AboveQuarterStep ==
    (AboveQuarter /\ pc = "loop") =>
        /\ last'.op \in SecondOps
        /\ last'.recv = state_machine.inner
        /\ last'.op = "Second::into_third" =>
              /\ last'.outcome.v.is = "Err"
              /\ state_machine' = state_machine
              /\ pc' = "loop"
        /\ (/\ last'.op = "Second::add"
            /\ InI32(state_machine.inner.val + SecondAddend)) =>
              /\ state_machine'.variant = "Second"
              /\ state_machine'.inner.val
                    = state_machine.inner.val + SecondAddend
              /\ state_machine'.inner.val > I32_MAX \div IntoThirdFactor
              /\ pc' = "loop"
        /\ state_machine'.variant = "Second"
        /\ pc' # "done"

\* C20. Once the payload of the Second in the handle is above i32::MAX / 4,
\* every into_third(4) of main fails and the only step that changes the
\* payload is add(2): as long as no addition overflows the payload grows,
\* the handle stays Second and main does not stop.
C20_StuckAboveQuarter == [][AboveQuarterStep]_vars

\* new(1), a First self-loop with the increment i32::MAX - 13, then
\* into_second(12): the handle is Second(i32::MAX), and into_third(4) has
\* failed on it.
C20_Witness ==
    /\ step = 3
    /\ pc = "loop"
    /\ prev.op = "First::into_second"
    /\ prev.recv = First(Seed + (I32_MAX - IntoSecondAddend - Seed))
    /\ last.op = "Second::into_third"
    /\ last.outcome.v.is = "Err"
    /\ AboveQuarter
    /\ state_machine = StateMachine_Second(Second(I32_MAX))

====
